---------------------------- MODULE Spec2Model ----------------------------
(***************************************************************************)
(* A model of the crawler's frontier (src/crawler/frontier.py) and of the  *)
(* filter and trap detector of src/scraper.py.                             *)
(*                                                                         *)
(* URLs and page texts are strings; the string operations of the source    *)
(* (in, startswith, endswith, split, lower, re.sub, urlparse) are modelled *)
(* character by character.                                                 *)
(***************************************************************************)
EXTENDS Integers, Sequences, FiniteSets, TLC

VARIABLES
    save,               \* Frontier.save: the open shelf, urlhash -> <<url, completed>>
    disk,               \* what the shelf's files hold: the state a kill leaves behind
    save_exists,        \* the shelf's files exist
    dbm_module,         \* the dbm module shelve.open uses on this platform, None before the first open
    to_be_downloaded,   \* Frontier.to_be_downloaded: the in-memory list
    running,            \* a Frontier object is alive (constructed and not killed)
    call,               \* the last call: <<operation, argument, returned value>>
    marked,             \* URLs for which mark_url_complete has returned (since the last fresh start)
    markedPrev,         \* marked, as it was when the process was last killed
    added,              \* URLs for which add_url has returned (since the last fresh start)
    poppedPrev,         \* URLs get_tbd_url returned in the runs before this one
    drained,            \* the URLs get_tbd_url has returned in this run, in order
    atOpen,             \* the durable map this run's constructor found
    onlyGets,           \* no add_url has been called since this run's constructor
    pc,                 \* per worker: where it is inside add_url or is_trap; in a crawl, where the worker is in its loop
    wurl,               \* per worker: the url (normalized) of the call it is in; in a crawl, the popped URL and the links left to add
    calls,              \* calls started by the workers; in a crawl, the runs started
    returned,           \* calls of the workers that have returned
    wread,              \* per worker: the counter value it read inside is_trap
    vscheme, vhost, vpath, vquery,   \* the parts of the URL handed to is_valid
    vret,               \* <<what is_valid returned for it>>, <<>> before the call
    vtype,              \* the Python type of the value handed to is_valid
    url_patterns,       \* scraper.url_patterns: signature -> count
    content_hashes,     \* scraper.content_hashes: fingerprint -> list of URLs
    tcall,              \* the last is_trap call: <<url, content, returned value>>, <<>> before the first
    sigCalls,           \* signature -> the is_trap calls made with a URL of it
    fpCalls,            \* fingerprint -> the is_trap calls that reached the content check with it
    unique_pages,       \* scraper.unique_pages
    page_word_counts,   \* scraper.page_word_counts: url -> number of words
    word_frequencies,   \* scraper.word_frequencies: word -> count
    subdomains,         \* scraper.subdomains: netloc -> set of URLs
    scall,              \* the last scraper call: <<url, response, returned links>>, <<>> before the first
    gurls,              \* the two URLs handed to get_url_pattern
    gret                \* <<their signatures>>, <<>> before the calls

vars == <<save, disk, save_exists, dbm_module, to_be_downloaded, running, call, marked,
          markedPrev, added, poppedPrev, drained, atOpen, onlyGets, pc, wurl, calls, returned,
          wread, vscheme, vhost, vpath, vquery, vret, vtype, url_patterns, content_hashes, tcall,
          sigCalls, fpCalls, unique_pages, page_word_counts, word_frequencies, subdomains,
          scall, gurls, gret>>

frontierVars == <<save, disk, save_exists, dbm_module, to_be_downloaded, running, call, marked,
                  markedPrev, added, poppedPrev, drained, atOpen, onlyGets>>
workerVars == <<pc, wurl, calls, returned, wread>>
validVars == <<vscheme, vhost, vpath, vquery, vret, vtype>>
trapVars == <<url_patterns, content_hashes, tcall, sigCalls, fpCalls>>
statsVars == <<unique_pages, page_word_counts, word_frequencies, subdomains, scall>>
patternVars == <<gurls, gret>>

None == "None"

-----------------------------------------------------------------------------
(* Python's str operations.                                                *)

UpperChars == "ABCDEFGHIJKLMNOPQRSTUVWXYZ"
LowerChars == "abcdefghijklmnopqrstuvwxyz"
DigitChars == "0123456789"

CharAt(s, i) == SubSeq(s, i, i)

Min(S) == CHOOSE m \in S : \A n \in S : m <= n

\* sub in s
Contains(s, sub) ==
    \E i \in 1..(Len(s) - Len(sub) + 1) : SubSeq(s, i, i + Len(sub) - 1) = sub

\* s.startswith(p)
StartsWith(s, p) == Len(p) <= Len(s) /\ SubSeq(s, 1, Len(p)) = p

\* s.endswith(p)
EndsWith(s, p) == Len(p) <= Len(s) /\ SubSeq(s, Len(s) - Len(p) + 1, Len(s)) = p

\* s.find(c, from) for a one-character c, 1-based; 0 when absent
Find(s, c, from) ==
    LET I == {i \in from..Len(s) : CharAt(s, i) = c}
    IN  IF I = {} THEN 0 ELSE Min(I)

\* the first index at or after from that holds one of the characters of cs; 0 when none
FindAny(s, cs, from) ==
    LET I == {i \in from..Len(s) : Contains(cs, CharAt(s, i))}
    IN  IF I = {} THEN 0 ELSE Min(I)

IsUpper(c) == Len(c) = 1 /\ Contains(UpperChars, c)
IsAlpha(c) == Len(c) = 1 /\ (Contains(UpperChars, c) \/ Contains(LowerChars, c))
IsDigit(c) == Len(c) = 1 /\ Contains(DigitChars, c)

LowerChar(c) ==
    IF IsUpper(c) THEN CharAt(LowerChars, Find(UpperChars, c, 1)) ELSE c

RECURSIVE Lower(_)
\* s.lower()
Lower(s) == IF s = "" THEN "" ELSE LowerChar(Head(s)) \o Lower(Tail(s))

RECURSIVE Split(_, _)
\* s.split(c) for a one-character c
Split(s, c) ==
    LET i == Find(s, c, 1)
    IN  IF i = 0 THEN <<s>>
        ELSE <<SubSeq(s, 1, i - 1)>> \o Split(SubSeq(s, i + 1, Len(s)), c)

\* s.split(c, 1) of an s that holds c: <<before, after>>
Split1(s, c) ==
    LET i == Find(s, c, 1)
    IN  <<SubSeq(s, 1, i - 1), SubSeq(s, i + 1, Len(s))>>

RECURSIVE DropDigits(_)
DropDigits(s) == IF s # "" /\ IsDigit(Head(s)) THEN DropDigits(Tail(s)) ELSE s

RECURSIVE ReSubDigits(_)
\* re.sub(r'\d+', 'N', s)
ReSubDigits(s) ==
    IF s = "" THEN ""
    ELSE IF IsDigit(Head(s)) THEN "N" \o ReSubDigits(DropDigits(Tail(s)))
    ELSE Head(s) \o ReSubDigits(Tail(s))

AllDigits(s) == \A i \in 1..Len(s) : IsDigit(CharAt(s, i))

\* re.search(r'\d{4}-\d{4}', s)
HasYearRange(s) ==
    \E i \in 1..(Len(s) - 8) :
        /\ AllDigits(SubSeq(s, i, i + 3))
        /\ CharAt(s, i + 4) = "-"
        /\ AllDigits(SubSeq(s, i + 5, i + 8))

\* The code points of the characters the model's URLs use, in ASCII order.
AsciiOrder == "#&-./0123456789:;=?ABCDEFGHIJKLMNOPQRSTUVWXYZ[]_abcdefghijklmnopqrstuvwxyz"

Ord(c) == Find(AsciiOrder, c, 1)

RECURSIVE StrLess(_, _)
\* a < b on str
StrLess(a, b) ==
    IF b = "" THEN FALSE
    ELSE IF a = "" THEN TRUE
    ELSE IF Head(a) = Head(b) THEN StrLess(Tail(a), Tail(b))
    ELSE Ord(Head(a)) < Ord(Head(b))

-----------------------------------------------------------------------------
(* urllib.parse.urlparse, for the URLs the model uses.                     *)

SchemeChars == LowerChars \o UpperChars \o DigitChars \o "+-."

\* the scheme of url and what follows its colon
SplitScheme(url) ==
    LET i == Find(url, ":", 1)
    IN  IF /\ i > 1
           /\ IsAlpha(CharAt(url, 1))
           /\ \A j \in 1..(i - 1) : Contains(SchemeChars, CharAt(url, j))
        THEN <<Lower(SubSeq(url, 1, i - 1)), SubSeq(url, i + 1, Len(url))>>
        ELSE <<"", url>>

\* the netloc (after a leading //) and what follows it
SplitNetloc(rest) ==
    IF StartsWith(rest, "//")
    THEN LET d == FindAny(rest, "/?#", 3)
             e == IF d = 0 THEN Len(rest) + 1 ELSE d
         IN  <<SubSeq(rest, 3, e - 1), SubSeq(rest, e, Len(rest))>>
    ELSE <<"", rest>>

\* urlsplit raises ValueError("Invalid IPv6 URL") on an unbalanced bracket
Ipv6Error(netloc) ==
    \/ Contains(netloc, "[") /\ ~Contains(netloc, "]")
    \/ Contains(netloc, "]") /\ ~Contains(netloc, "[")

\* _splitparams: the path up to the first ";" of its last segment
SplitParams(path) ==
    LET slashes == {i \in 1..Len(path) : CharAt(path, i) = "/"}
        last == IF slashes = {} THEN 1 ELSE CHOOSE m \in slashes : \A n \in slashes : n <= m
        i == Find(path, ";", last)
    IN  IF i = 0 THEN path ELSE SubSeq(path, 1, i - 1)

urlparse(url) ==
    LET s == SplitScheme(url)
        n == SplitNetloc(s[2])
        h == Find(n[2], "#", 1)
        nofrag == IF h = 0 THEN n[2] ELSE SubSeq(n[2], 1, h - 1)
        frag == IF h = 0 THEN "" ELSE SubSeq(n[2], h + 1, Len(n[2]))
        q == Find(nofrag, "?", 1)
        path == IF q = 0 THEN nofrag ELSE SubSeq(nofrag, 1, q - 1)
        query == IF q = 0 THEN "" ELSE SubSeq(nofrag, q + 1, Len(nofrag))
    IN  [scheme |-> s[1], netloc |-> n[1], path |-> SplitParams(path),
         query |-> query, fragment |-> frag, raises |-> Ipv6Error(n[1])]

-----------------------------------------------------------------------------
(* scraper.is_valid                                                        *)

\* [param.split('=', 1) for param in query.split('&') if '=' in param]
ParamPairs(query) ==
    LET ps == SelectSeq(Split(query, "&"), LAMBDA p : Contains(p, "="))
    IN  [i \in 1..Len(ps) |-> Split1(ps[i], "=")]

\* key in dict(pairs)
HasKey(pairs, key) == \E i \in 1..Len(pairs) : pairs[i][1] = key

\* dict(pairs).get(key, ''): the last pair of a key wins
GetKey(pairs, key) ==
    LET I == {i \in 1..Len(pairs) : pairs[i][1] = key}
    IN  IF I = {} THEN "" ELSE pairs[CHOOSE m \in I : \A n \in I : n <= m][2]

valid_domains == <<"ics.uci.edu", "cs.uci.edu", "informatics.uci.edu", "stat.uci.edu">>

\* netloc == domain or netloc.endswith("." + domain), for some allowed domain
DomainAllowedSubstring(netloc) ==
    \E i \in 1..Len(valid_domains) : Contains(netloc, valid_domains[i])

DomainAllowed(netloc) ==
    \E i \in 1..Len(valid_domains) :
        netloc = valid_domains[i] \/ EndsWith(netloc, "." \o valid_domains[i])

\* the alternatives of the extension pattern of is_valid
BadExtensions ==
    {"css", "js", "bmp", "gif", "jpg", "jpeg", "ico",
     "png", "tif", "tiff", "mid", "mp2", "mp3", "mp4",
     "wav", "avi", "mov", "mpeg", "ram", "m4v", "mkv", "ogg", "ogv", "pdf",
     "ps", "eps", "tex", "ppt", "pptx", "pps", "ppsx", "doc", "docx", "xls", "xlsx", "names",
     "data", "dat", "exe", "bz2", "tar", "msi", "bin", "7z", "psd", "dmg", "iso",
     "epub", "dll", "cnf", "tgz", "sha1", "sql", "mpg",
     "thmx", "mso", "arff", "rtf", "jar", "csv",
     "rm", "smil", "wmv", "swf", "wma", "zip", "rar", "gz"}

HasBadExtension(path, path_lower) ==
    \E e \in BadExtensions : EndsWith(path_lower, "." \o e)

CbclActions == {"login", "recent", "revisions", "diff", "edit", "backlink",
                "resendpwd", "index", ""}

\* the cbcl.ics.uci.edu rules reject the URL
CbclRejects(netloc, parsed) ==
    /\ Contains(netloc, "cbcl.ics.uci.edu")
    /\ \/ /\ parsed.query # ""
          /\ LET qp == ParamPairs(parsed.query)
             IN  \/ HasKey(qp, "do") /\ GetKey(qp, "do") \in CbclActions
                 \/ HasKey(qp, "id") /\ Contains(Lower(GetKey(qp, "id")), ".pdf")
       \/ Contains(Lower(parsed.path), "/http/")
       \/ Contains(Lower(parsed.path), "/www.")

\* the ics.uci.edu/people/ filter rule rejects the URL
PeopleRejects(netloc, parsed) ==
    /\ Contains(netloc, "ics.uci.edu")
    /\ Contains(Lower(parsed.path), "/people/")
    /\ parsed.query # ""
    /\ Contains(Lower(parsed.query), "filter")

\* the grape.ics.uci.edu wiki rule rejects the URL
GrapeRejects(netloc, parsed) ==
    /\ Contains(netloc, "grape.ics.uci.edu")
    /\ Contains(parsed.path, "/wiki/")
    /\ parsed.query # ""
    /\ LET qp == ParamPairs(parsed.query)
       IN  HasKey(qp, "version") \/ HasKey(qp, "action")

\* the directory sorting rule rejects the URL
SortingRejects(parsed) ==
    /\ parsed.query # ""
    /\ LET ps == Split(parsed.query, ";")
       IN  \E i \in 1..Len(ps) : StartsWith(ps[i], "C=") \/ StartsWith(ps[i], "O=")

\* the wiki rules reject the URL
WikiRejects(netloc, parsed) ==
    /\ Contains(netloc, "wiki.ics.uci.edu") \/ Contains(netloc, "swiki.ics.uci.edu")
    /\ parsed.query # ""
    /\ LET qp == ParamPairs(parsed.query)
       IN  \/ \E k \in {"do", "rev", "tab_files", "tab_details", "image"} : HasKey(qp, k)
           \/ HasKey(qp, "ns") /\ GetKey(qp, "ns") \in {"projects", "media", "wiki", "windows"}

\* the path names a PDF directory
PdfPathRejects(path_lower) ==
    \E d \in {"/pdf/", "/pdfs/", "/files/pdf/"} : Contains(path_lower, d)

\* the query holds two or more parameters that start with "filter"
FilterRejects(parsed) ==
    /\ parsed.query # ""
    /\ LET ps == Split(parsed.query, "&")
       IN  Cardinality({i \in 1..Len(ps) : StartsWith(ps[i], "filter")}) >= 2

SchemeAllowed(scheme) == scheme \in {"http", "https"}

\* the tests of is_valid, on the local variables parsed, netloc and path_lower
ValidLowered(parsed, netloc, path_lower) ==
    /\ ~parsed.raises
    /\ SchemeAllowed(parsed.scheme)
    /\ DomainAllowed(netloc)
    /\ ~CbclRejects(netloc, parsed)
    /\ ~PeopleRejects(netloc, parsed)
    /\ ~GrapeRejects(netloc, parsed)
    /\ ~SortingRejects(parsed)
    /\ ~WikiRejects(netloc, parsed)
    /\ ~PdfPathRejects(path_lower)
    /\ ~HasBadExtension(parsed.path, path_lower)
    /\ ~FilterRejects(parsed)

\* netloc = parsed.netloc.lower(), path_lower = parsed.path.lower()
ValidParsed(parsed) == ValidLowered(parsed, Lower(parsed.netloc), Lower(parsed.path))

is_valid(url) == ValidParsed(urlparse(url))

-----------------------------------------------------------------------------
(* scraper.get_url_pattern                                                 *)

RECURSIVE Join(_, _)
\* sep.join(parts)
Join(parts, sep) ==
    IF parts = <<>> THEN ""
    ELSE IF Len(parts) = 1 THEN parts[1]
    ELSE LET mid == Len(parts) \div 2
         IN  Join(SubSeq(parts, 1, mid), sep) \o sep \o Join(SubSeq(parts, mid + 1, Len(parts)), sep)

RECURSIVE SortedStrings(_)
\* sorted(S) for a set of str
SortedStrings(S) ==
    IF S = {} THEN <<>>
    ELSE LET least == CHOOSE a \in S : \A b \in S \ {a} : StrLess(a, b)
         IN  <<least>> \o SortedStrings(S \ {least})

\* the query parameters get_url_pattern keeps as they are
KeptParams == {"seminar_id", "event_id", "post_id", "page_id", "archive_year"}

\* the signature of a wiki URL
WikiPattern(parsed) ==
    LET path_parts == Split(parsed.path, "/")
        at == {i \in 1..Len(path_parts) : path_parts[i] = "doku.php"}
    IN  IF at # {}
        THEN LET doku_index == Min(at)
                 rest == Join(SubSeq(path_parts, doku_index + 1, Len(path_parts)), "/")
                 page_id == IF parsed.query # ""
                            THEN GetKey(ParamPairs(parsed.query), "id") ELSE ""
             IN  parsed.netloc \o "/wiki/" \o (IF page_id # "" THEN page_id ELSE rest)
        ELSE parsed.netloc \o parsed.path

\* the path with its runs of digits replaced, a seminar archive's years kept
PathPattern(path) ==
    IF Contains(path, "department-seminars-")
    THEN LET path_parts == Split(path, "/")
         IN  Join([i \in 1..Len(path_parts) |->
                      IF StartsWith(path_parts[i], "department-seminars-")
                         /\ HasYearRange(path_parts[i])
                      THEN path_parts[i]
                      ELSE ReSubDigits(path_parts[i])], "/")
    ELSE ReSubDigits(path)

\* the query's parameters, each key once with the value of its last occurrence,
\* sorted by key
QueryPattern(query) ==
    LET pairs == ParamPairs(query)
        keys == SortedStrings({pairs[i][1] : i \in 1..Len(pairs)})
    IN  Join([i \in 1..Len(keys) |->
                 keys[i] \o "=" \o (IF keys[i] \in KeptParams THEN GetKey(pairs, keys[i])
                                    ELSE ReSubDigits(GetKey(pairs, keys[i])))], "&")

get_url_pattern(url) ==
    LET parsed == urlparse(url)
    IN  IF Contains(parsed.netloc, "wiki.ics.uci.edu") \/ Contains(parsed.netloc, "swiki.ics.uci.edu")
        THEN WikiPattern(parsed)
        ELSE IF parsed.query # ""
        THEN parsed.netloc \o PathPattern(parsed.path) \o "?" \o QueryPattern(parsed.query)
        ELSE parsed.netloc \o PathPattern(parsed.path)

-----------------------------------------------------------------------------
(* scraper.tokenize_text and scraper.get_content_hash. A page text is the   *)
(* sequence of its pieces between single spaces: the text is the pieces     *)
(* joined by " ".                                                           *)

STOP_WORDS ==
    {"a", "also", "about", "above", "after", "again", "against", "all", "am", "an",
     "and", "any", "are", "aren", "as", "at", "be", "because", "been", "before",
     "being", "below", "between", "both", "but", "by", "can", "cannot", "could",
     "couldn", "did", "didn", "do", "does", "doesn", "doing", "don", "down", "during",
     "each", "few", "for", "from", "further", "had", "hadn", "has", "hasn", "have",
     "having", "he", "her", "here", "hers", "herself", "him", "himself", "his", "how",
     "i", "if", "in", "into", "is", "isn", "it", "its", "itself", "let", "me", "may",
     "more", "most", "mustn", "my", "myself", "no", "nor", "not", "of", "off", "on",
     "once", "only", "or", "other", "ought", "our", "ours", "ourselves", "out", "over",
     "own", "same", "shan", "she", "should", "shouldn", "so", "some", "such", "than",
     "that", "the", "their", "theirs", "them", "themselves", "then", "there", "these",
     "they", "this", "those", "through", "to", "too", "under", "until", "up", "very",
     "was", "wasn", "we", "were", "weren", "what", "when", "where", "which", "while",
     "who", "whom", "why", "will", "with", "would", "wouldn", "you", "your", "yours",
     "yourself", "yourselves"}

NON_WORDS ==
    {"http", "https", "xml", "www", "edu", "dav", "bdd", "ll", "re", "ve", "cfg",
     "simse", "sc", "dt", "markellekelly", "br"}

RECURSIVE LetterRuns(_)
\* re.findall(r"[a-zA-Z]+", s)
LetterRuns(s) ==
    IF s = "" THEN <<>>
    ELSE IF ~IsAlpha(Head(s)) THEN LetterRuns(Tail(s))
    ELSE LET stops == {i \in 1..Len(s) : ~IsAlpha(CharAt(s, i))}
             n == IF stops = {} THEN Len(s) ELSE Min(stops) - 1
         IN  <<SubSeq(s, 1, n)>> \o LetterRuns(SubSeq(s, n + 1, Len(s)))

RECURSIVE FindallWords(_)
\* re.findall(r"[a-zA-Z]+", text.lower()): a space ends a word, so the words of the
\* text are the words of its pieces
FindallWords(text) ==
    IF text = <<>> THEN <<>>
    ELSE IF Len(text) = 1 THEN LetterRuns(Lower(text[1]))
    ELSE LET mid == Len(text) \div 2
         IN  FindallWords(SubSeq(text, 1, mid)) \o FindallWords(SubSeq(text, mid + 1, Len(text)))

tokenize_text(text) ==
    SelectSeq(FindallWords(text),
              LAMBDA word : word \notin STOP_WORDS /\ word \notin NON_WORDS /\ Len(word) > 1)

\* sub in text, for a sub without a space
TextContains(text, sub) == \E i \in 1..Len(text) : Contains(text[i], sub)

\* hashlib.md5(s.encode('utf-8')).hexdigest(): a digest no two of the model's texts share
Md5(s) == "md5:" \o s

\* the fewest words a text must have to get a fingerprint
MinHashedWords == 20
\* a text of more words than this is sampled
MaxUnsampledWords == 1000
\* the words taken from the start and from the end of a sampled text
SampleLen == 300
\* the words taken on each side of the middle of a sampled text
SampleHalf == 150

get_content_hash(text) ==
    LET words == tokenize_text(text)
        word_count == Len(words)
        sampled_words ==
            IF word_count <= MaxUnsampledWords THEN words
            ELSE SubSeq(words, 1, SampleLen)
                 \o SubSeq(words, (word_count \div 2) - SampleHalf + 1, (word_count \div 2) + SampleHalf)
                 \o SubSeq(words, word_count - SampleLen + 1, word_count)
    IN  IF word_count < MinHashedWords THEN None
        ELSE IF /\ TextContains(text, "archive.ics.uci.edu")
                /\ TextContains(text, "search=") \/ TextContains(text, "Keywords=")
        THEN Md5(Join(words, " "))
        ELSE Md5(Join(sampled_words, " "))

-----------------------------------------------------------------------------
(* scraper.is_trap                                                         *)

MAX_PATTERN_REPEAT == 10
MAX_SIMILAR_CONTENT == 5

\* the calls of is_trap the model makes at most
MaxTrapCalls == 12

DecimalDigits == <<"0", "1", "2", "3", "4", "5", "6", "7", "8", "9">>

RECURSIVE ToDecimal(_)
\* str(n)
ToDecimal(n) ==
    IF n < 10 THEN DecimalDigits[n + 1]
    ELSE ToDecimal(n \div 10) \o DecimalDigits[(n % 10) + 1]

\* The URLs is_trap is called with: the pages of a listing, all distinct and all of
\* one signature, and one URL of another signature, passed again and again.
PageUrl(k) == "http://ics.uci.edu/page/" \o ToDecimal(k)
Event == "http://ics.uci.edu/e?year=2021&event_id=7"

TrapUrls == {PageUrl(k) : k \in 1..MaxTrapCalls} \cup {Event}

\* The page texts is_trap is called with, by name.
\* 19 words that count, among words that do not
TextShort ==
    [i \in 1..19 |-> "Crawler"] \o <<"the", "of", "www", "x", "a-b", "edu">>
\* 1001 words: the 320th is in no sample
TextA == [i \in 1..1001 |-> IF i = 320 THEN "beta" ELSE "alpha"]
\* as TextA, but for its 320th word
TextB == [i \in 1..1001 |-> IF i = 320 THEN "gamma" ELSE "alpha"]
\* as TextB, and a page of the archive's search: every word counts
TextSearch ==
    [i \in 1..1001 |-> IF i = 320 THEN "gamma" ELSE IF i = 680 THEN "archive.ics.uci.edu?search=1" ELSE "alpha"]

\* a page of sixty words, none of them dropped
TextPage == [i \in 1..60 |-> IF i = 7 THEN "crawler" ELSE "frontier"]

Texts ==
    [name \in {"Empty", "Short", "A", "B", "Search", "Page"} |->
        CASE name = "Empty" -> <<>>
          [] name = "Page" -> TextPage
          [] name = "Short" -> TextShort
          [] name = "A" -> TextA
          [] name = "B" -> TextB
          [] name = "Search" -> TextSearch]

\* the calls made: which URL and which text
TrapInputs ==
    {<<"page", "Empty">>, <<"page", "Short">>, <<"page", "A">>, <<"page", "B">>,
     <<"event", "Search">>, <<"event", "Short">>}

\* get_url_pattern, get_content_hash and the number of tokens of the above, worked out once
PatternOf == [url \in TrapUrls |-> get_url_pattern(url)]

HashOf == [name \in DOMAIN Texts |-> get_content_hash(Texts[name])]

TokensOf == [name \in DOMAIN Texts |-> Len(tokenize_text(Texts[name]))]

\* Counter(words)
WordCounts(words) ==
    [w \in {words[i] : i \in 1..Len(words)} |->
        Cardinality({i \in 1..Len(words) : words[i] = w})]

\* Counter(tokenize_text(text)) of the texts, worked out once
CountsOf == [name \in DOMAIN Texts |-> WordCounts(tokenize_text(Texts[name]))]

\* d[key] of a defaultdict
DictGet(d, key, default) == IF key \in DOMAIN d THEN d[key] ELSE default

\* d[key] = value
DictPut(d, key, value) ==
    [k \in DOMAIN d \cup {key} |-> IF k = key THEN value ELSE d[k]]

\* url_patterns[pattern] > MAX_PATTERN_REPEAT, for the count after the increment
PatternTripsAtThreshold(count) == count >= MAX_PATTERN_REPEAT

PatternTrips(count) == count > MAX_PATTERN_REPEAT

\* len(similar_pages) >= MAX_SIMILAR_CONTENT
TooManySimilarOneMore(similar_pages) == Len(similar_pages) > MAX_SIMILAR_CONTENT

TooManySimilar(similar_pages) == Len(similar_pages) >= MAX_SIMILAR_CONTENT

\* is_trap with the content bookkeeping done before the pattern test
TrapVerdictContentFirst(patterns, hashes, url, content, pattern, content_hash) ==
    LET counted == DictPut(patterns, pattern, DictGet(patterns, pattern, 0) + 1)
        similar_pages == DictGet(hashes, content_hash, <<>>)
        hashed == Texts[content] # <<>> /\ content_hash # None
        noted == IF ~hashed THEN hashes
                 ELSE IF TooManySimilar(similar_pages)
                 THEN DictPut(hashes, content_hash, similar_pages)
                 ELSE DictPut(hashes, content_hash, Append(similar_pages, url))
    IN  [url_patterns |-> counted, content_hashes |-> noted,
         ret |-> PatternTrips(counted[pattern]) \/ (hashed /\ TooManySimilar(similar_pages))]

\* is_trap, given the signature of its URL and the fingerprint of its text: what it
\* leaves in the counters and the table, and what it returns
TrapVerdict(patterns, hashes, url, content, pattern, content_hash) ==
    LET counted == DictPut(patterns, pattern, DictGet(patterns, pattern, 0) + 1)
        similar_pages == DictGet(hashes, content_hash, <<>>)
    IN  IF PatternTrips(counted[pattern])
        THEN [url_patterns |-> counted, content_hashes |-> hashes, ret |-> TRUE]
        ELSE IF Texts[content] = <<>>
        THEN [url_patterns |-> counted, content_hashes |-> hashes, ret |-> FALSE]
        ELSE IF content_hash = None
        THEN [url_patterns |-> counted, content_hashes |-> hashes, ret |-> FALSE]
        ELSE IF TooManySimilar(similar_pages)
        THEN [url_patterns |-> counted,
              content_hashes |-> DictPut(hashes, content_hash, similar_pages),
              ret |-> TRUE]
        ELSE [url_patterns |-> counted,
              content_hashes |-> DictPut(hashes, content_hash, Append(similar_pages, url)),
              ret |-> FALSE]

\* is_trap(url, content) on the counters and the table
is_trap(patterns, hashes, url, content) ==
    TrapVerdict(patterns, hashes, url, content, PatternOf[url], HashOf[content])

-----------------------------------------------------------------------------
(* utils.normalize and utils.get_urlhash: the frontier imports them; their  *)
(* code is not part of the sources at hand, so they are modelled as the     *)
(* specification describes them.                                            *)

\* the host with the scheme's default port removed
StripDefaultPort(scheme, host) ==
    IF scheme = "http" /\ EndsWith(host, ":80") THEN SubSeq(host, 1, Len(host) - 3)
    ELSE IF scheme = "https" /\ EndsWith(host, ":443") THEN SubSeq(host, 1, Len(host) - 4)
    ELSE host

\* scheme and host in lower case, no default port, no fragment
normalize(url) ==
    LET s == SplitScheme(url)
        n == SplitNetloc(s[2])
        h == Find(n[2], "#", 1)
        rest == IF h = 0 THEN n[2] ELSE SubSeq(n[2], 1, h - 1)
    IN  IF s[1] = "" \/ n[1] = "" THEN url
        ELSE s[1] \o "://" \o StripDefaultPort(s[1], Lower(n[1])) \o rest

\* a digest of the url: deterministic, and no two urls share one
get_urlhash(url) == <<"hash", url>>

-----------------------------------------------------------------------------
(* crawler.frontier.Frontier                                               *)

\* The URLs the frontier is called with.
UrlA == "http://ics.uci.edu/a"
UrlARaw == "HTTP://ICS.uci.edu:80/a#top"
UrlB == "http://ics.uci.edu/b.pdf"
UrlC == "https://www.cs.uci.edu/c"

AddInputs == {UrlARaw, UrlB, UrlC}
MarkInputs == {UrlA, UrlARaw, UrlB, UrlC}

Range(seq) == {seq[i] : i \in 1..Len(seq)}

\* config.seed_urls
seed_urls == <<UrlA, UrlARaw>>

\* normalize and is_valid of the URLs above, worked out once
Normalized == [url \in AddInputs \cup MarkInputs \cup Range(seed_urls) |-> normalize(url)]

Valid == [url \in AddInputs \cup MarkInputs \cup Range(seed_urls) |-> is_valid(url)]

EmptyShelf == [h \in {} |-> None]

\* shelf[key] = value
ShelfPut(shelf, key, value) ==
    [k \in DOMAIN shelf \cup {key} |-> IF k = key THEN value ELSE shelf[k]]

ShelfSync(shelf, files) == shelf

Count(seq, x) == Cardinality({i \in 1..Len(seq) : seq[i] = x})

\* the orders in which the elements of S can be listed
Orderings(S) ==
    {o \in [1..Cardinality(S) -> S] : \A i, j \in 1..Cardinality(S) : o[i] = o[j] => i = j}

\* Frontier.add_url, on the state st = [save, disk, tbd]
add_urlNoCheck(st, url) ==
    LET u == Normalized[url]
        urlhash == get_urlhash(u)
        written == ShelfPut(st.save, urlhash, <<u, FALSE>>)
    IN  [save |-> written,
         disk |-> ShelfSync(written, st.disk),
         tbd |-> Append(st.tbd, u)]

add_url(st, url) ==
    LET u == Normalized[url]
        urlhash == get_urlhash(u)
        written == ShelfPut(st.save, urlhash, <<u, FALSE>>)
    IN  IF urlhash \notin DOMAIN st.save
        THEN [save |-> written,
              disk |-> ShelfSync(written, st.disk),
              tbd |-> Append(st.tbd, u)]
        ELSE st

\* Frontier.mark_url_complete, on the state st
mark_url_completeNoSync(st, url) ==
    LET written == ShelfPut(st.save, get_urlhash(url), <<url, TRUE>>)
    IN  [save |-> written, disk |-> st.disk, tbd |-> st.tbd]

\* mark_url_complete giving up on a URL it has not seen
mark_url_completeKnownOnly(st, url) ==
    IF get_urlhash(url) \in DOMAIN st.save
    THEN LET written == ShelfPut(st.save, get_urlhash(url), <<url, TRUE>>)
         IN  [st EXCEPT !.save = written, !.disk = ShelfSync(written, st.disk)]
    ELSE st

mark_url_complete(st, url) ==
    LET written == ShelfPut(st.save, get_urlhash(url), <<url, TRUE>>)
    IN  [save |-> written, disk |-> ShelfSync(written, st.disk), tbd |-> st.tbd]

RECURSIVE AddAll(_, _)
\* for url in urls: self.add_url(url)
AddAll(st, urls) ==
    IF urls = <<>> THEN st ELSE AddAll(add_url(st, Head(urls)), Tail(urls))

PendingKeysUnfiltered(shelf) == {k \in DOMAIN shelf : ~shelf[k][2]}

PendingKeysNone(shelf) == {}

PendingKeys(shelf) == {k \in DOMAIN shelf : ~shelf[k][2] /\ Valid[shelf[k][1]]}

\* Frontier._parse_save_file: the lists it can build (shelf.values() has no set order)
parse_save_file(shelf) ==
    {[i \in DOMAIN o |-> shelf[o[i]][1]] : o \in Orderings(PendingKeys(shelf))}

Here == [save |-> save, disk |-> disk, tbd |-> to_be_downloaded]

\* The dbm module shelve.open creates and opens the files with: dbm.gnu where the
\* platform has it, a single file of the name given; dbm.dumb where it has no other,
\* three files of that name with .dat, .dir and .bak added.
DbmModules == {"dbm.gnu", "dbm.dumb"}

\* save_exists of __init__: one of the names with .bak, .dat, .dir added exists
SaveExists(module) == save_exists /\ module = "dbm.dumb"

\* __init__ that never seeds a resumed run
ConstructNoFallback(restart) ==
    /\ ~running
    /\ dbm_module' \in (IF dbm_module = None THEN DbmModules ELSE {dbm_module})
    /\ LET files == IF SaveExists(dbm_module') /\ restart THEN EmptyShelf ELSE disk
           opened == [save |-> files, disk |-> files, tbd |-> <<>>]
       IN  \E loaded \in parse_save_file(files) :
               LET st == IF restart THEN AddAll(opened, seed_urls)
                         ELSE [opened EXCEPT !.tbd = loaded]
               IN  /\ save' = st.save
                   /\ disk' = st.disk
                   /\ to_be_downloaded' = st.tbd
    /\ save_exists' = TRUE
    /\ running' = TRUE
    /\ call' = <<"init", restart, None>>

\* Frontier.__init__(config, restart)
Construct(restart) ==
    /\ ~running
    /\ dbm_module' \in (IF dbm_module = None THEN DbmModules ELSE {dbm_module})
    /\ LET files == IF SaveExists(dbm_module') /\ restart THEN EmptyShelf ELSE disk
           opened == [save |-> files, disk |-> files, tbd |-> <<>>]
       IN  IF restart
           THEN LET st == AddAll(opened, seed_urls)
                IN  /\ save' = st.save
                    /\ disk' = st.disk
                    /\ to_be_downloaded' = st.tbd
           ELSE \E loaded \in parse_save_file(files) :
                    LET st == IF DOMAIN files = {}
                              THEN AddAll([opened EXCEPT !.tbd = loaded], seed_urls)
                              ELSE [opened EXCEPT !.tbd = loaded]
                    IN  /\ save' = st.save
                        /\ disk' = st.disk
                        /\ to_be_downloaded' = st.tbd
    /\ save_exists' = TRUE
    /\ running' = TRUE
    /\ call' = <<"init", restart, None>>

\* get_tbd_url popping the oldest entry
GetTbdUrlFifo ==
    /\ running
    /\ IF to_be_downloaded = <<>>
       THEN /\ call' = <<"get_tbd_url", None, None>>
            /\ UNCHANGED to_be_downloaded
       ELSE /\ call' = <<"get_tbd_url", None, Head(to_be_downloaded)>>
            /\ to_be_downloaded' = Tail(to_be_downloaded)
    /\ UNCHANGED <<save, disk, save_exists, dbm_module, running>>

\* get_tbd_url returning the last entry and leaving it in the list
GetTbdUrlPeek ==
    /\ running
    /\ IF to_be_downloaded = <<>>
       THEN call' = <<"get_tbd_url", None, None>>
       ELSE call' = <<"get_tbd_url", None, to_be_downloaded[Len(to_be_downloaded)]>>
    /\ UNCHANGED <<to_be_downloaded, save, disk, save_exists, dbm_module, running>>

\* Frontier.get_tbd_url()
GetTbdUrl ==
    /\ running
    /\ IF to_be_downloaded = <<>>
       THEN /\ call' = <<"get_tbd_url", None, None>>
            /\ UNCHANGED to_be_downloaded
       ELSE LET n == Len(to_be_downloaded)
            IN  /\ call' = <<"get_tbd_url", None, to_be_downloaded[n]>>
                /\ to_be_downloaded' = SubSeq(to_be_downloaded, 1, n - 1)
    /\ UNCHANGED <<save, disk, save_exists, dbm_module, running>>

\* Frontier.add_url(url)
AddUrl(url) ==
    /\ running
    /\ LET st == add_url(Here, url)
       IN  /\ save' = st.save
           /\ disk' = st.disk
           /\ to_be_downloaded' = st.tbd
    /\ call' = <<"add_url", url, None>>
    /\ UNCHANGED <<save_exists, dbm_module, running>>

\* Frontier.mark_url_complete(url)
MarkUrlComplete(url) ==
    /\ running
    /\ LET st == mark_url_complete(Here, url)
       IN  /\ save' = st.save
           /\ disk' = st.disk
           /\ to_be_downloaded' = st.tbd
    /\ call' = <<"mark_url_complete", url, None>>
    /\ UNCHANGED <<save_exists, dbm_module, running>>

\* What a kill leaves: the files as they are, the list and the open shelf gone.
Killed(files) ==
    /\ running
    /\ running' = FALSE
    /\ disk' = files
    /\ save' = files
    /\ to_be_downloaded' = <<>>
    /\ call' = <<"kill", None, None>>
    /\ UNCHANGED <<save_exists, dbm_module>>

\* The process is killed between two calls. A write that was not synced may or may
\* not have reached the files.
Kill == \E files \in {disk, save} : Killed(files)

\* The process is killed inside add_url(url), after the write and before sync returns.
KillInAddUrl(url) ==
    LET u == Normalized[url]
        urlhash == get_urlhash(u)
    IN  /\ urlhash \notin DOMAIN save
        /\ \E files \in {disk, ShelfPut(save, urlhash, <<u, FALSE>>)} : Killed(files)

\* The process is killed inside mark_url_complete(url), after the write and before
\* sync returns.
KillInMarkUrlComplete(url) ==
    \E files \in {disk, ShelfPut(save, get_urlhash(url), <<url, TRUE>>)} : Killed(files)

-----------------------------------------------------------------------------
(* What the claims need to know of the past. Each specification records    *)
(* the part its claims are about; call' names the call a step made.        *)

IsFreshStart(c) == c[1] = "init" /\ c[2] = TRUE

TrackMarked ==
    marked' = IF call'[1] = "mark_url_complete" THEN marked \cup {call'[2]}
              ELSE IF IsFreshStart(call') THEN {}
              ELSE marked

TrackMarkedPrev ==
    markedPrev' = IF call'[1] = "kill" THEN marked
                  ELSE IF IsFreshStart(call') THEN {}
                  ELSE markedPrev

TrackAdded ==
    added' = IF call'[1] = "add_url" THEN added \cup {call'[2]}
             ELSE IF IsFreshStart(call') THEN {}
             ELSE added

TrackDrained ==
    drained' = IF call'[1] = "get_tbd_url" /\ call'[3] # None THEN Append(drained, call'[3])
               ELSE IF call'[1] = "init" THEN <<>>
               ELSE drained

TrackPoppedPrev ==
    poppedPrev' = IF call'[1] = "kill" THEN poppedPrev \cup Range(drained)
                  ELSE IF IsFreshStart(call') THEN {}
                  ELSE poppedPrev

TrackAtOpen ==
    atOpen' = IF call'[1] = "init"
              THEN (IF save_exists /\ call'[2] THEN EmptyShelf ELSE disk)
              ELSE atOpen

TrackOnlyGets ==
    onlyGets' = IF call'[1] = "init" THEN TRUE
                ELSE IF call'[1] = "add_url" THEN FALSE
                ELSE onlyGets

InitFrontier ==
    /\ save = EmptyShelf
    /\ disk = EmptyShelf
    /\ save_exists = FALSE
    /\ dbm_module = None
    /\ to_be_downloaded = <<>>
    /\ running = FALSE
    /\ call = <<"none", None, None>>
    /\ marked = {}
    /\ markedPrev = {}
    /\ added = {}
    /\ poppedPrev = {}
    /\ drained = <<>>
    /\ atOpen = EmptyShelf
    /\ onlyGets = TRUE

InitWorkers ==
    /\ pc = <<>>
    /\ wurl = <<>>
    /\ calls = 0
    /\ returned = 0
    /\ wread = <<>>

InitValid ==
    /\ vscheme = None
    /\ vhost = None
    /\ vpath = None
    /\ vquery = None
    /\ vret = <<>>
    /\ vtype = None

InitTrap ==
    /\ url_patterns = <<>>
    /\ content_hashes = <<>>
    /\ tcall = <<>>
    /\ sigCalls = <<>>
    /\ fpCalls = <<>>

InitStats ==
    /\ unique_pages = {}
    /\ page_word_counts = <<>>
    /\ word_frequencies = <<>>
    /\ subdomains = <<>>
    /\ scall = <<>>

InitPattern ==
    /\ gurls = <<>>
    /\ gret = <<>>

Init == InitFrontier /\ InitWorkers /\ InitValid /\ InitTrap /\ InitStats /\ InitPattern

otherVars == <<workerVars, validVars, trapVars, statsVars, patternVars>>

\* Calls of the frontier, one at a time, and kills: completions are recorded.
HistCalls ==
    /\ TrackMarked
    /\ UNCHANGED <<markedPrev, added, poppedPrev, drained, atOpen, onlyGets>>
    /\ UNCHANGED otherVars

Next ==
    \/ \E restart \in BOOLEAN : Construct(restart) /\ HistCalls
    \/ GetTbdUrl /\ HistCalls
    \/ \E url \in AddInputs : AddUrl(url) /\ HistCalls
    \/ \E url \in MarkInputs : MarkUrlComplete(url) /\ HistCalls
    \/ Kill /\ HistCalls
    \/ \E url \in AddInputs : KillInAddUrl(url) /\ HistCalls
    \/ \E url \in MarkInputs : KillInMarkUrlComplete(url) /\ HistCalls

Spec == Init /\ [][Next]_vars

\* The same calls: what each run's constructor found and what the run popped.
HistResume ==
    /\ TrackAtOpen
    /\ TrackDrained
    /\ TrackOnlyGets
    /\ UNCHANGED <<marked, markedPrev, added, poppedPrev>>
    /\ UNCHANGED otherVars

NextResume ==
    \/ \E restart \in BOOLEAN : Construct(restart) /\ HistResume
    \/ GetTbdUrl /\ HistResume
    \/ \E url \in AddInputs : AddUrl(url) /\ HistResume
    \/ \E url \in MarkInputs : MarkUrlComplete(url) /\ HistResume
    \/ Kill /\ HistResume
    \/ \E url \in AddInputs : KillInAddUrl(url) /\ HistResume
    \/ \E url \in MarkInputs : KillInMarkUrlComplete(url) /\ HistResume

SpecResume == Init /\ [][NextResume]_vars

\* The process is killed inside __init__, after shelve.open (line 37) has made the
\* files and before the first seed is written: the files exist, and hold what
\* the constructor found.
KillInConstruct(restart) ==
    /\ ~running
    /\ dbm_module' \in (IF dbm_module = None THEN DbmModules ELSE {dbm_module})
    /\ LET files == IF SaveExists(dbm_module') /\ restart THEN EmptyShelf ELSE disk
       IN  /\ disk' = files
           /\ save' = files
    /\ save_exists' = TRUE
    /\ call' = <<"kill", None, None>>
    /\ UNCHANGED <<to_be_downloaded, running>>

\* The calls of NextResume, and kills inside the constructor, which leave a durable
\* map that exists and is empty.
NextFallback ==
    \/ \E restart \in BOOLEAN : Construct(restart) /\ HistResume
    \/ \E restart \in BOOLEAN : KillInConstruct(restart) /\ HistResume
    \/ GetTbdUrl /\ HistResume
    \/ \E url \in AddInputs : AddUrl(url) /\ HistResume
    \/ \E url \in MarkInputs : MarkUrlComplete(url) /\ HistResume
    \/ Kill /\ HistResume
    \/ \E url \in AddInputs : KillInAddUrl(url) /\ HistResume
    \/ \E url \in MarkInputs : KillInMarkUrlComplete(url) /\ HistResume

SpecFallback == Init /\ [][NextFallback]_vars

\* The same calls: what was popped in this run and in the runs before it.
HistPopped ==
    /\ TrackDrained
    /\ TrackPoppedPrev
    /\ UNCHANGED <<marked, markedPrev, added, atOpen, onlyGets>>
    /\ UNCHANGED otherVars

NextPopped ==
    \/ \E restart \in BOOLEAN : Construct(restart) /\ HistPopped
    \/ GetTbdUrl /\ HistPopped
    \/ \E url \in AddInputs : AddUrl(url) /\ HistPopped
    \/ \E url \in MarkInputs : MarkUrlComplete(url) /\ HistPopped
    \/ Kill /\ HistPopped
    \/ \E url \in AddInputs : KillInAddUrl(url) /\ HistPopped
    \/ \E url \in MarkInputs : KillInMarkUrlComplete(url) /\ HistPopped

SpecPopped == Init /\ [][NextPopped]_vars

\* The same calls: the calls that have returned, and those that had at the last kill.
HistDurable ==
    /\ TrackMarked
    /\ TrackMarkedPrev
    /\ TrackAdded
    /\ UNCHANGED <<poppedPrev, drained, atOpen, onlyGets>>
    /\ UNCHANGED otherVars

NextDurable ==
    \/ \E restart \in BOOLEAN : Construct(restart) /\ HistDurable
    \/ GetTbdUrl /\ HistDurable
    \/ \E url \in AddInputs : AddUrl(url) /\ HistDurable
    \/ \E url \in MarkInputs : MarkUrlComplete(url) /\ HistDurable
    \/ Kill /\ HistDurable
    \/ \E url \in AddInputs : KillInAddUrl(url) /\ HistDurable
    \/ \E url \in MarkInputs : KillInMarkUrlComplete(url) /\ HistDurable

SpecDurable == Init /\ [][NextDurable]_vars

-----------------------------------------------------------------------------
(* Workers that call add_url at the same time. Threads switch between the   *)
(* statements of add_url: the membership test, the write, the sync and the  *)
(* append are steps of their own.                                           *)

NumWorkers == 2
MaxCalls == 3

Workers == 1..NumWorkers

\* A worker enters add_url(url): lines 67-68 work out the normalized url and its hash.
AddUrlStart(w, url) ==
    /\ pc[w] = "idle"
    /\ calls < MaxCalls
    /\ calls' = calls + 1
    /\ wurl' = [wurl EXCEPT ![w] = url]
    /\ pc' = [pc EXCEPT ![w] = "test"]
    /\ UNCHANGED <<save, disk, to_be_downloaded, returned, added>>

\* if urlhash not in self.save
AddUrlTest(w) ==
    /\ pc[w] = "test"
    /\ IF get_urlhash(Normalized[wurl[w]]) \notin DOMAIN save
       THEN /\ pc' = [pc EXCEPT ![w] = "write"]
            /\ UNCHANGED <<returned, added>>
       ELSE /\ pc' = [pc EXCEPT ![w] = "idle"]
            /\ returned' = returned + 1
            /\ added' = added \cup {wurl[w]}
    /\ UNCHANGED <<save, disk, to_be_downloaded, calls, wurl>>

\* self.save[urlhash] = (url, False)
AddUrlWrite(w) ==
    /\ pc[w] = "write"
    /\ save' = ShelfPut(save, get_urlhash(Normalized[wurl[w]]), <<Normalized[wurl[w]], FALSE>>)
    /\ pc' = [pc EXCEPT ![w] = "sync"]
    /\ UNCHANGED <<disk, to_be_downloaded, calls, returned, wurl, added>>

\* self.save.sync()
AddUrlSync(w) ==
    /\ pc[w] = "sync"
    /\ disk' = ShelfSync(save, disk)
    /\ pc' = [pc EXCEPT ![w] = "append"]
    /\ UNCHANGED <<save, to_be_downloaded, calls, returned, wurl, added>>

\* self.to_be_downloaded.append(url), and the call returns
AddUrlAppend(w) ==
    /\ pc[w] = "append"
    /\ to_be_downloaded' = Append(to_be_downloaded, Normalized[wurl[w]])
    /\ pc' = [pc EXCEPT ![w] = "idle"]
    /\ returned' = returned + 1
    /\ added' = added \cup {wurl[w]}
    /\ UNCHANGED <<save, disk, calls, wurl>>

\* A frontier that has just been constructed from the seeds, and idle workers.
InitConc ==
    LET st == AddAll([save |-> EmptyShelf, disk |-> EmptyShelf, tbd |-> <<>>], seed_urls)
    IN  /\ save = st.save
        /\ disk = st.disk
        /\ to_be_downloaded = st.tbd
        /\ save_exists = TRUE
        /\ dbm_module \in DbmModules
        /\ running = TRUE
        /\ call = <<"init", TRUE, None>>
        /\ marked = {}
        /\ markedPrev = {}
        /\ added = {}
        /\ poppedPrev = {}
        /\ drained = <<>>
        /\ atOpen = EmptyShelf
        /\ onlyGets = TRUE
        /\ pc = [w \in Workers |-> "idle"]
        /\ wurl = [w \in Workers |-> None]
        /\ calls = 0
        /\ returned = 0
        /\ wread = <<>>
        /\ InitValid
        /\ InitTrap
        /\ InitStats
        /\ InitPattern

ConcUnchanged ==
    UNCHANGED <<save_exists, dbm_module, running, call, marked, markedPrev, poppedPrev,
                drained, atOpen, onlyGets, wread, validVars, trapVars, statsVars, patternVars>>

NextConc ==
    \/ \E w \in Workers, url \in AddInputs : AddUrlStart(w, url) /\ ConcUnchanged
    \/ \E w \in Workers : AddUrlTest(w) /\ ConcUnchanged
    \/ \E w \in Workers : AddUrlWrite(w) /\ ConcUnchanged
    \/ \E w \in Workers : AddUrlSync(w) /\ ConcUnchanged
    \/ \E w \in Workers : AddUrlAppend(w) /\ ConcUnchanged

SpecConc == InitConc /\ [][NextConc]_vars

-----------------------------------------------------------------------------
(* is_valid as a function of its argument: the argument is put together     *)
(* from a scheme part, a host, a path and a query, and is_valid is called   *)
(* on it once.                                                              *)

SchemeParts == {"http://", "https://", "HTTPS://", "ftp://", "httpx://", ""}

HostParts ==
    {"ics.uci.edu", "www.ics.uci.edu", "WWW.CS.uci.edu", "stat.uci.edu",
     "vision.informatics.uci.edu", "evilics.uci.edu.attacker.com", "evilics.uci.edu",
     "ics.uci.edu.", "attacker.com", "ics.uci.edu:8080", "ics.uci.edu@attacker.com",
     "[ics.uci.edu", "[www.ics.uci.edu", "cbcl.ics.uci.edu", "grape.ics.uci.edu", "swiki.ics.uci.edu"}

PathParts ==
    {"", "/x", "/x.pdf", "/x.PDF", "/x.pdf/y", "/a/pdf/b", "/people/x", "/wiki/x",
     "/http/x", "/x.jpeg", "/x.pdfx", "/x.pdf;v=1"}

QueryParts ==
    {"", "?do=edit", "?id=a.pdf", "?filter=1", "?filter1=a&filter2=b", "?C=N;O=D",
     "?version=2", "?ns=media", "?x=y.pdf#f.pdf"}

\* the URL is_valid is called with
VUrl == vscheme \o vhost \o vpath \o vquery

\* the types of the values is_valid is called with that are not str; for
\* bytes VUrl is the text of the value
NonStrTypes == {"bytes", "NoneType", "int", "list"}

InitValidInputs ==
    /\ \/ /\ vtype = "str"
          /\ vscheme \in SchemeParts
          /\ vhost \in HostParts
          /\ vpath \in PathParts
          /\ vquery \in QueryParts
       \/ /\ vtype \in NonStrTypes
          /\ vscheme = "http://"
          /\ vhost = "www.ics.uci.edu"
          /\ vpath = "/people/x"
          /\ vquery = ""
    /\ vret = <<>>

\* parsed = urlparse(url) raises: a ValueError for a str with an unclosed
\* bracket in its host; bytes and None are parsed into bytes fields; a value
\* of any other type has no decode() and raises an AttributeError
UrlparseRaises(type, url) ==
    IF type = "str" THEN urlparse(url).raises ELSE type \notin {"bytes", "NoneType"}

\* the body of the try block when urlparse has returned: the scheme of a
\* parsed bytes or None is a bytes object, which is no member of the set of
\* the two str schemes
IsValidTry(type, url) == IF type = "str" THEN is_valid(url) ELSE FALSE

\* is_valid without its two except clauses: the exception leaves the function
IsValidOutcomeNoExcept(type, url) ==
    IF UrlparseRaises(type, url) THEN <<"raised", "Exception">>
    ELSE <<IsValidTry(type, url)>>

\* what a call of is_valid ends with: <<the value returned>>; both except
\* clauses return False
IsValidOutcome(type, url) ==
    IF UrlparseRaises(type, url) THEN <<FALSE>> ELSE <<IsValidTry(type, url)>>

\* vret = is_valid(url)
IsValidCall ==
    /\ vret = <<>>
    /\ vret' = IsValidOutcome(vtype, VUrl)
    /\ UNCHANGED <<vscheme, vhost, vpath, vquery, vtype>>

NextValid == IsValidCall /\ UNCHANGED <<frontierVars, workerVars, trapVars, statsVars, patternVars>>

\* no frontier, no trap detector state: a URL to call is_valid on
InitValidCall ==
    InitFrontier /\ InitWorkers /\ InitValidInputs /\ InitTrap /\ InitStats /\ InitPattern

SpecValid == InitValidCall /\ [][NextValid]_vars

(* The trap detector: is_trap called over and over.                       *)

RECURSIVE Total(_)
\* the sum of the values of d
Total(d) ==
    IF DOMAIN d = {} THEN 0
    ELSE LET k == CHOOSE x \in DOMAIN d : TRUE
         IN  d[k] + Total([x \in DOMAIN d \ {k} |-> d[x]])

\* what a call is_trap(url, content) that returned r leaves, a URL of signature
\* pattern and a text of fingerprint content_hash
TrapCallReturns(url, content, pattern, content_hash, r) ==
    /\ url_patterns' = r.url_patterns
    /\ content_hashes' = r.content_hashes
    /\ tcall' = <<url, content, r.ret>>
    /\ sigCalls' = DictPut(sigCalls, pattern, DictGet(sigCalls, pattern, 0) + 1)
    /\ fpCalls' = IF /\ DictGet(sigCalls, pattern, 0) + 1 <= MAX_PATTERN_REPEAT
                     /\ TokensOf[content] >= MinHashedWords
                  THEN DictPut(fpCalls, content_hash, DictGet(fpCalls, content_hash, 0) + 1)
                  ELSE fpCalls

\* a call is_trap(url, content)
IsTrapCall(url, content) ==
    /\ Total(sigCalls) < MaxTrapCalls
    /\ TrapCallReturns(url, content, PatternOf[url], HashOf[content],
                       is_trap(url_patterns, content_hashes, url, content))

\* the URL of the next call: the listing's next page, or the event once more
NextUrl(which) ==
    IF which = "page" THEN PageUrl(DictGet(sigCalls, PatternOf[PageUrl(1)], 0) + 1)
    ELSE Event

NextTrap ==
    \E in \in TrapInputs :
        /\ IsTrapCall(NextUrl(in[1]), in[2])
        /\ UNCHANGED <<frontierVars, workerVars, validVars, statsVars, patternVars>>

SpecTrap == Init /\ [][NextTrap]_vars

-----------------------------------------------------------------------------
(* is_trap called by several workers at once. The function takes no lock;   *)
(* a worker can be preempted between two bytecodes, so the load and the     *)
(* store of url_patterns[pattern] += 1 are two steps, and so are the test   *)
(* of len(similar_pages) and the append.                                    *)

\* a worker enters is_trap(url, content) with the next URL of the listing;
\* pattern and content_hash are the call's local variables
IsTrapEnter(w, content) ==
    /\ pc[w] = "idle"
    /\ calls < MaxCalls
    /\ calls' = calls + 1
    /\ wurl' = [wurl EXCEPT ![w] = [url |-> PageUrl(calls + 1), content |-> content,
                                     pattern |-> PatternOf[PageUrl(calls + 1)],
                                     content_hash |-> HashOf[content]]]
    /\ pc' = [pc EXCEPT ![w] = "load"]
    /\ UNCHANGED <<url_patterns, content_hashes, tcall, returned, wread>>

\* is_trap returns ret to worker w
IsTrapReturn(w, ret) ==
    /\ pc' = [pc EXCEPT ![w] = "idle"]
    /\ returned' = returned + 1
    /\ tcall' = <<wurl[w].url, wurl[w].content, ret>>

\* url_patterns[pattern] += 1, first half: the value is loaded; the defaultdict
\* inserts 0 for a signature it does not hold
IsTrapLoad(w) ==
    /\ pc[w] = "load"
    /\ wread' = [wread EXCEPT ![w] = DictGet(url_patterns, wurl[w].pattern, 0)]
    /\ url_patterns' = DictPut(url_patterns, wurl[w].pattern, wread'[w])
    /\ pc' = [pc EXCEPT ![w] = "store"]
    /\ UNCHANGED <<content_hashes, tcall, calls, returned, wurl>>

\* url_patterns[pattern] += 1, second half: the loaded value plus one is stored
IsTrapStore(w) ==
    /\ pc[w] = "store"
    /\ url_patterns' = DictPut(url_patterns, wurl[w].pattern, wread[w] + 1)
    /\ pc' = [pc EXCEPT ![w] = "test"]
    /\ UNCHANGED <<content_hashes, tcall, calls, returned, wurl, wread>>

\* if url_patterns[pattern] > MAX_PATTERN_REPEAT: return True; then the tests of
\* the text and of its fingerprint
IsTrapTest(w) ==
    /\ pc[w] = "test"
    /\ IF PatternTrips(url_patterns[wurl[w].pattern])
       THEN IsTrapReturn(w, TRUE)
       ELSE IF Texts[wurl[w].content] = <<>> \/ wurl[w].content_hash = None
       THEN IsTrapReturn(w, FALSE)
       ELSE /\ pc' = [pc EXCEPT ![w] = "similar"]
            /\ UNCHANGED <<tcall, returned>>
    /\ UNCHANGED <<url_patterns, content_hashes, calls, wurl, wread>>

\* similar_pages = content_hashes[content_hash], and the test of its length
IsTrapSimilar(w) ==
    /\ pc[w] = "similar"
    /\ LET similar_pages == DictGet(content_hashes, wurl[w].content_hash, <<>>)
       IN  /\ content_hashes' = DictPut(content_hashes, wurl[w].content_hash, similar_pages)
           /\ IF TooManySimilar(similar_pages)
              THEN IsTrapReturn(w, TRUE)
              ELSE /\ pc' = [pc EXCEPT ![w] = "append"]
                   /\ UNCHANGED <<tcall, returned>>
    /\ UNCHANGED <<url_patterns, calls, wurl, wread>>

\* similar_pages.append(url); return False
IsTrapAppend(w) ==
    /\ pc[w] = "append"
    /\ content_hashes' = DictPut(content_hashes, wurl[w].content_hash,
                                 Append(content_hashes[wurl[w].content_hash], wurl[w].url))
    /\ IsTrapReturn(w, FALSE)
    /\ UNCHANGED <<url_patterns, calls, wurl, wread>>

\* the texts the workers' pages carry
ConcTexts == {"Empty", "Short", "A"}

\* no frontier; idle workers, and a trap detector that has seen no call
InitTrapConc ==
    /\ InitFrontier /\ InitValid /\ InitTrap /\ InitStats /\ InitPattern
    /\ pc = [w \in Workers |-> "idle"]
    /\ wurl = [w \in Workers |-> None]
    /\ calls = 0
    /\ returned = 0
    /\ wread = [w \in Workers |-> 0]

TrapConcUnchanged ==
    UNCHANGED <<frontierVars, validVars, statsVars, patternVars, sigCalls, fpCalls>>

NextTrapConc ==
    \/ \E w \in Workers, content \in ConcTexts : IsTrapEnter(w, content) /\ TrapConcUnchanged
    \/ \E w \in Workers : IsTrapLoad(w) /\ TrapConcUnchanged
    \/ \E w \in Workers : IsTrapStore(w) /\ TrapConcUnchanged
    \/ \E w \in Workers : IsTrapTest(w) /\ TrapConcUnchanged
    \/ \E w \in Workers : IsTrapSimilar(w) /\ TrapConcUnchanged
    \/ \E w \in Workers : IsTrapAppend(w) /\ TrapConcUnchanged

SpecTrapConc == InitTrapConc /\ [][NextTrapConc]_vars

-----------------------------------------------------------------------------
(* get_url_pattern as a function of its argument: it is called on two URLs  *)
(* of one host and path whose queries hold the same parameters in two       *)
(* orders.                                                                  *)

\* the most parameters in a query
MaxParams == 3

\* the parameters the queries are made of: keys that repeat, with values that
\* hold digits and values that do not, a kept key, the wiki's page id, and a
\* parameter without "="
QueryParams == {"a=1", "a=2", "b=x", "b=y", "page_id=3", "page_id=4", "id=p", "id=q", "flag"}

\* host and path of the two URLs
PatternBases == {"http://ics.uci.edu/e", "http://wiki.ics.uci.edu/doku.php/x"}

\* the sequences of n distinct parameters
ParamSeqs(n) ==
    {q \in [1..n -> QueryParams] : \A i, j \in 1..n : q[i] = q[j] => i = j}

\* the orders of the parameters of q
Reordered(q) == {[i \in 1..Len(q) |-> q[o[i]]] : o \in Orderings(1..Len(q))}

\* pairs of URLs that differ in the order of their parameters alone, of at
\* most `most` parameters
PatternInputs(most) ==
    {<<base \o "?" \o Join(x[1], "&"), base \o "?" \o Join(x[2], "&")>> :
        base \in PatternBases,
        x \in UNION {{<<q, o>> : o \in Reordered(q)} :
                        q \in UNION {ParamSeqs(n) : n \in 2..most}}}

InitPatternCall ==
    /\ InitFrontier /\ InitWorkers /\ InitValid /\ InitTrap /\ InitStats
    /\ gurls \in PatternInputs(MaxParams)
    /\ gret = <<>>

\* gret = <<get_url_pattern(u) for u in gurls>>
GetUrlPatternCall ==
    /\ gret = <<>>
    /\ gret' = [i \in 1..Len(gurls) |-> get_url_pattern(gurls[i])]
    /\ UNCHANGED gurls

NextPattern ==
    GetUrlPatternCall /\ UNCHANGED <<frontierVars, workerVars, validVars, trapVars, statsVars>>

SpecPattern == InitPatternCall /\ [][NextPattern]_vars

-----------------------------------------------------------------------------
(* scraper, extract_next_links and update_stats. A response is what the     *)
(* code reads of resp: raw_response (None, an object that is false, or one  *)
(* that is true), its Content-Type header, resp.status, whether             *)
(* BeautifulSoup parses the body, and the text of the parsed page. Every    *)
(* page has the same anchors and the same raw_response.url.                 *)

MIN_WORDS_PER_PAGE == 50

\* the most calls of is_trap the scraper makes
MaxScrapes == 7

\* urldefrag(url)[0], for a URL that urlunparse gives back as it was
urldefrag(url) ==
    LET h == Find(url, "#", 1)
    IN  IF h = 0 THEN url ELSE SubSeq(url, 1, h - 1)

\* urljoin(base, href), for an href that is a whole URL or a path from the root
urljoin(base, href) ==
    IF Contains(href, "://") THEN href
    ELSE LET parsed == urlparse(base)
         IN  parsed.scheme \o "://" \o parsed.netloc \o href

\* href.strip()
RECURSIVE Strip(_)
Strip(s) ==
    IF s = "" THEN ""
    ELSE IF Head(s) = " " THEN Strip(Tail(s))
    ELSE IF SubSeq(s, Len(s), Len(s)) = " " THEN Strip(SubSeq(s, 1, Len(s) - 1))
    ELSE s

\* the loop over soup.find_all('a', href=True)
RECURSIVE ExtractLinks(_, _, _)
ExtractLinks(final_url, hrefs, extracted_links) ==
    IF hrefs = <<>> THEN extracted_links
    ELSE LET href == Strip(Head(hrefs))
             clean_url == urldefrag(urljoin(final_url, href))
         IN  ExtractLinks(final_url, Tail(hrefs),
                          IF href = "" \/ clean_url \in Range(extracted_links)
                          THEN extracted_links
                          ELSE Append(extracted_links, clean_url))

\* the hrefs of a page: one link twice, with and without a fragment, links
\* is_valid rejects, a blank href
Hrefs ==
    <<"http://www.ics.uci.edu/x#frag", " /people/x ", " ", "http://attacker.com/",
      "/x.pdf", "http://www.ics.uci.edu/x">>

\* resp.raw_response.url
FinalUrl == "http://ics.uci.edu/page/1"

\* extracted_links after the loop, and those of them is_valid accepts, worked out once
Links == ExtractLinks(FinalUrl, Hrefs, <<>>)

ValidLinks == {link \in Range(Links) : is_valid(link)}

Response(raw, content_type, status, parses, text) ==
    [raw |-> raw, content_type |-> content_type, status |-> status, parses |-> parses,
     text |-> text]

Responses ==
    [name \in {"none", "false", "pdf", "untyped", "404", "601", "unparsed", "short",
               "page"} |->
        CASE name = "none" -> Response("None", "", 0, FALSE, "Empty")
          [] name = "false" -> Response("falsy", "text/html", 404, TRUE, "Page")
          [] name = "pdf" -> Response("truthy", "Application/PDF", 200, TRUE, "Page")
          [] name = "untyped" -> Response("truthy", "", 200, TRUE, "Page")
          [] name = "404" -> Response("truthy", "text/html", 404, TRUE, "Page")
          [] name = "601" -> Response("truthy", "text/html; charset=utf-8", 601, TRUE, "Page")
          [] name = "unparsed" -> Response("truthy", "text/html", 200, FALSE, "Page")
          [] name = "short" -> Response("truthy", "text/html", 200, TRUE, "Short")
          [] name = "page" -> Response("truthy", "Text/HTML; charset=utf-8", 200, TRUE, "Page")]

\* the URLs the scraper is called with
ScrapeUrls == {PageUrl(1) \o "#top", Event}

\* 'text/html' not in content_type, of the responses, worked out once
NotHtmlOf ==
    [name \in DOMAIN Responses |->
        ~Contains(Lower(Responses[name].content_type), "text/html")]

\* urlparse(url).netloc.lower() of the URLs update_stats is called with, worked out once
NetlocOf == [url \in {urldefrag(u) : u \in ScrapeUrls} |-> Lower(urlparse(url).netloc)]

\* the four statistics
Statistics == <<unique_pages, page_word_counts, word_frequencies, subdomains>>

\* word_frequencies.update(words), for counts = Counter(words)
CounterUpdate(counter, counts) ==
    [w \in DOMAIN counter \cup DOMAIN counts |-> DictGet(counter, w, 0) + DictGet(counts, w, 0)]

\* subdomains[netloc].add(url)
SetAdd(d, key, value) == DictPut(d, key, DictGet(d, key, {}) \cup {value})

\* update_stats(url, words), words the tokens of the text
update_stats(url, text) ==
    /\ unique_pages' = unique_pages \cup {url}
    /\ page_word_counts' = DictPut(page_word_counts, url, TokensOf[text])
    /\ word_frequencies' = CounterUpdate(word_frequencies, CountsOf[text])
    /\ subdomains' = SetAdd(subdomains, NetlocOf[url], url)

\* the returns of extract_next_links that come before is_trap, without the test
\* of resp.status
ReturnsEarlyAnyStatus(resp, not_html, nwords) ==
    resp.raw # "truthy" \/ not_html \/ ~resp.parses \/ nwords < MIN_WORDS_PER_PAGE

\* the returns of extract_next_links that come before is_trap: no raw response,
\* a content type that is not HTML, a status that is not 200, a body that does
\* not parse, fewer than MIN_WORDS_PER_PAGE words
ReturnsEarly(resp, not_html, nwords) ==
    \/ resp.raw # "truthy"
    \/ not_html
    \/ resp.status # 200
    \/ ~resp.parses
    \/ nwords < MIN_WORDS_PER_PAGE

\* valid_links = [link for link in links if is_valid(link)]
scraper(links) == SelectSeq(links, LAMBDA link : link \in ValidLinks)

\* extract_next_links with update_stats called before is_trap's verdict is tested
extract_next_linksStatsFirst(url, name, resp, early, t) ==
    IF early
    THEN /\ scall' = <<url, name, <<>>, <<>>>>
         /\ UNCHANGED <<Statistics, url_patterns, content_hashes>>
    ELSE /\ url_patterns' = t.url_patterns
         /\ content_hashes' = t.content_hashes
         /\ update_stats(urldefrag(url), resp.text)
         /\ scall' = <<url, name, IF t.ret THEN <<>> ELSE scraper(Links), <<t.ret>>>>

\* scraper(url, resp) with the response of the given name: extract_next_links, and
\* the filter of the links it returns (of an empty list nothing is left). early
\* tells whether it returns before is_trap, t is what is_trap(defrag_url, text)
\* returns and leaves. scall is <<url, response, the links returned, <<what
\* is_trap returned>> if it was called>>
extract_next_links(url, name, resp, early, t) ==
    IF early
    THEN /\ scall' = <<url, name, <<>>, <<>>>>
         /\ UNCHANGED <<Statistics, url_patterns, content_hashes>>
    ELSE /\ url_patterns' = t.url_patterns
         /\ content_hashes' = t.content_hashes
         /\ IF t.ret
            THEN /\ scall' = <<url, name, <<>>, <<TRUE>>>>
                 /\ UNCHANGED Statistics
            ELSE /\ update_stats(urldefrag(url), resp.text)
                 /\ scall' = <<url, name, scraper(Links), <<FALSE>>>>

\* a call scraper(url, resp) with the response of the given name
Scrape(url, name) ==
    /\ Total(url_patterns) < MaxScrapes
    /\ extract_next_links(url, name, Responses[name],
                          ReturnsEarly(Responses[name], NotHtmlOf[name],
                                       TokensOf[Responses[name].text]),
                          TrapVerdict(url_patterns, content_hashes, urldefrag(url),
                                      Responses[name].text, PatternOf[urldefrag(url)],
                                      HashOf[Responses[name].text]))
    /\ UNCHANGED <<frontierVars, workerVars, validVars, patternVars, tcall, sigCalls, fpCalls>>

NextScraper == \E url \in ScrapeUrls, name \in DOMAIN Responses : Scrape(url, name)

SpecScraper == Init /\ [][NextScraper]_vars

-----------------------------------------------------------------------------
(* A crawl: one worker over the frontier. The worker pops a URL, calls      *)
(* add_url for each link of the page it fetched, then mark_url_complete for *)
(* the URL it popped, and stops when get_tbd_url returns None. The links of *)
(* a page are any short sequence of the frontier's URLs. The process can be *)
(* killed between two calls and a new run constructed, MaxRuns runs in all. *)

\* the most links on a page
MaxLinks == 2

\* the most runs of the crawler
MaxRuns == 2

\* the links a page can hold
PageLinks == UNION {[1..n -> AddInputs] : n \in 0..MaxLinks}

\* what the crawl records: the URLs popped in this run
HistCrawl ==
    /\ TrackDrained
    /\ UNCHANGED <<marked, markedPrev, added, poppedPrev, atOpen, onlyGets>>
    /\ UNCHANGED <<returned, wread, validVars, trapVars, statsVars, patternVars>>

\* a run starts: the frontier is constructed and the worker is at the top of its loop
CrawlStart(restart) ==
    /\ calls < MaxRuns
    /\ Construct(restart)
    /\ calls' = calls + 1
    /\ pc' = "pop"
    /\ wurl' = None

\* tbd_url = frontier.get_tbd_url(); the worker stops on None, else it fetches the
\* page, whose links are scraped
WorkerPop ==
    /\ pc = "pop"
    /\ GetTbdUrl
    /\ IF call'[3] = None
       THEN /\ pc' = "done"
            /\ wurl' = None
       ELSE /\ pc' = "add"
            /\ \E links \in PageLinks : wurl' = [url |-> call'[3], links |-> links]
    /\ UNCHANGED calls

\* for scraped_url in scraped_urls: frontier.add_url(scraped_url)
WorkerAdd ==
    /\ pc = "add"
    /\ wurl.links # <<>>
    /\ AddUrl(Head(wurl.links))
    /\ wurl' = [wurl EXCEPT !.links = Tail(wurl.links)]
    /\ UNCHANGED <<pc, calls>>

\* frontier.mark_url_complete(tbd_url), after the last link
WorkerMark ==
    /\ pc = "add"
    /\ wurl.links = <<>>
    /\ MarkUrlComplete(wurl.url)
    /\ pc' = "pop"
    /\ wurl' = None
    /\ UNCHANGED calls

\* the process is killed between two calls of the worker
CrawlKill == Kill /\ UNCHANGED <<pc, wurl, calls>>

\* the worker's next call
WorkerStep == (WorkerPop \/ WorkerAdd \/ WorkerMark) /\ HistCrawl

InitCrawl ==
    /\ InitFrontier /\ InitValid /\ InitTrap /\ InitStats /\ InitPattern
    /\ pc = "none"
    /\ wurl = None
    /\ calls = 0
    /\ returned = 0
    /\ wread = <<>>

NextCrawl ==
    \/ \E restart \in BOOLEAN : CrawlStart(restart) /\ HistCrawl
    \/ WorkerPop /\ HistCrawl
    \/ WorkerAdd /\ HistCrawl
    \/ WorkerMark /\ HistCrawl
    \/ CrawlKill /\ HistCrawl

SpecCrawl == InitCrawl /\ [][NextCrawl]_vars

\* the worker's thread keeps running its loop while the process lives
SpecCrawlFair == SpecCrawl /\ WF_vars(WorkerStep)

-----------------------------------------------------------------------------
(* The frontier's claims.                                                  *)

Record(shelf, url) == shelf[get_urlhash(url)]

HasRecord(shelf, url) == get_urlhash(url) \in DOMAIN shelf

NoDuplicates(seq) == \A i, j \in 1..Len(seq) : seq[i] = seq[j] => i = j

\* C1: once mark_url_complete(u) has returned, no later get_tbd_url() returns u,
\* also when u was still in the list when it was marked complete.
C1_CompletionExclusive ==
    call[1] = "get_tbd_url" => call[3] \notin marked

\* C2: when every add_url call of the workers has returned, each URL they added has
\* one durable record and is in the list exactly once.
C2_ExactlyOneRecordAndEntry ==
    (\A w \in Workers : pc[w] = "idle") =>
        \A url \in added :
            /\ HasRecord(disk, Normalized[url])
            /\ Count(to_be_downloaded, Normalized[url]) = 1

\* C3: add_url of a URL whose hash has a record changes neither the shelf, nor its
\* files, nor the list; add_url of a URL whose hash has none adds exactly one record
\* and one entry, so that two calls with the same URL leave one of each. No URL is
\* in the list twice.
C3_AddUrlIdempotent ==
    [][call'[1] = "add_url" =>
         LET u == Normalized[call'[2]]
         IN  /\ HasRecord(save, u) =>
                   /\ save' = save
                   /\ disk' = disk
                   /\ to_be_downloaded' = to_be_downloaded
             /\ ~HasRecord(save, u) =>
                   /\ DOMAIN save' = DOMAIN save \cup {get_urlhash(u)}
                   /\ DOMAIN disk' = DOMAIN disk \cup {get_urlhash(u)}
                   /\ Record(disk', u) = <<u, FALSE>>
                   /\ to_be_downloaded' = Append(to_be_downloaded, u)
             /\ Count(to_be_downloaded', u) <= 1]_vars

\* The last call was add_url of a URL that had been completed before: it was a
\* repeated add, and it left the URL out of the list.
C3_Witness ==
    /\ call[1] = "add_url"
    /\ HasRecord(save, Normalized[call[2]])
    /\ Record(save, Normalized[call[2]])[2] = TRUE
    /\ Count(to_be_downloaded, Normalized[call[2]]) = 0
    /\ Cardinality(DOMAIN save) = 1

\* the URLs of the records of a durable map that are not completed and pass is_valid
PendingUrls(shelf) ==
    {shelf[k][1] : k \in {h \in DOMAIN shelf : shelf[h][2] = FALSE /\ Valid[shelf[h][1]]}}

\* C4: in a run that resumed over a non-empty durable map, as long as only
\* get_tbd_url and mark_url_complete are called, the URLs popped so far and the
\* URLs still in the list are together the map's pending URLs, each once; so when
\* get_tbd_url returns None the run has returned exactly those.
C4_ResumeYieldsPending ==
    (running /\ onlyGets /\ DOMAIN atOpen # {}) =>
        /\ NoDuplicates(drained \o to_be_downloaded)
        /\ Range(drained) \cup Range(to_be_downloaded) = PendingUrls(atOpen)
        /\ call = <<"get_tbd_url", None, None>> =>
              /\ Range(drained) = PendingUrls(atOpen)
              /\ Len(drained) = Cardinality(PendingUrls(atOpen))

\* A resumed run has popped two pending URLs and then got None, over a map that
\* also held a completed record and a pending record that fails is_valid.
C4_Witness ==
    /\ running /\ onlyGets
    /\ call = <<"get_tbd_url", None, None>>
    /\ Len(drained) = 2
    /\ \E k \in DOMAIN atOpen : atOpen[k][2] = TRUE
    /\ \E k \in DOMAIN atOpen : atOpen[k][2] = FALSE /\ ~Valid[atOpen[k][1]]

\* C5, as claimed: over any sequence of runs and kills, get_tbd_url returns no URL
\* that it returned in an earlier run.
C5_AtMostOnceAcrossRuns ==
    (call[1] = "get_tbd_url" /\ call[3] # None) => call[3] \notin poppedPrev

\* C5, amended: a resumed run starts with every URL in its list that an earlier run
\* popped and whose record is still not completed, if it passes is_valid; within
\* one run no URL is returned twice.
C5_RequeuedOnResume ==
    /\ call = <<"init", FALSE, None>> =>
          \A u \in poppedPrev :
              (HasRecord(disk, u) /\ Record(disk, u)[2] = FALSE /\ Valid[u]) =>
                  Count(to_be_downloaded, u) = 1
    /\ NoDuplicates(drained)

\* A run has just resumed with a URL in its list that an earlier run had popped.
C5_Witness ==
    /\ call = <<"init", FALSE, None>>
    /\ \E u \in poppedPrev : Count(to_be_downloaded, u) = 1

\* C6: whatever the files hold is what a kill leaves. Every URL whose
\* mark_url_complete has returned has its record completed in the files, every URL
\* whose add_url has returned has a record there, and a run never pops a URL whose
\* mark_url_complete had returned when the process was last killed.
C6_SynchronousDurability ==
    /\ \A u \in marked : HasRecord(disk, u) /\ Record(disk, u) = <<u, TRUE>>
    /\ \A u \in added : HasRecord(disk, Normalized[u])
    /\ call[1] = "get_tbd_url" => call[3] \notin markedPrev

\* A run resumed after a kill pops a URL, with completions and additions reported
\* before the kill.
C6_Witness ==
    /\ call[1] = "get_tbd_url" /\ call[3] # None
    /\ markedPrev # {}
    /\ added # {}
    /\ \E u \in markedPrev : Record(disk, u) = <<u, TRUE>>

\* C7: every URL in the list has a durable record that is not completed.
C7_QueuedAreIncomplete ==
    \A i \in 1..Len(to_be_downloaded) :
        /\ HasRecord(disk, to_be_downloaded[i])
        /\ Record(disk, to_be_downloaded[i])[2] = FALSE

-----------------------------------------------------------------------------
(* The filter's claim.                                                     *)

AllowedDomains == {"ics.uci.edu", "cs.uci.edu", "informatics.uci.edu", "stat.uci.edu"}

\* the host (the netloc, in lower case) is an allowed domain or a name under one
HostUnderAllowedDomain(host) ==
    \E d \in AllowedDomains :
        \/ host = d
        \/ Len(host) > Len(d) + 1 /\ SubSeq(host, Len(host) - Len(d), Len(host)) = "." \o d

\* the path ends, in any case, with a dot and a disallowed extension
PathHasDisallowedExtension(path) ==
    \E e \in BadExtensions :
        Len(path) > Len(e) /\ Lower(SubSeq(path, Len(path) - Len(e), Len(path))) = "." \o e

\* C8: is_valid returns true only for a URL whose scheme is http or https, whose
\* host is an allowed domain or ends with a dot and an allowed domain, and whose path
\* does not end with a disallowed extension; and the four URLs the specification
\* names get the answers it names.
C8_FilterBoundary ==
    /\ vret = <<TRUE>> =>
          /\ urlparse(VUrl).scheme \in {"http", "https"}
          /\ HostUnderAllowedDomain(Lower(urlparse(VUrl).netloc))
          /\ ~PathHasDisallowedExtension(urlparse(VUrl).path)
    /\ (vret # <<>> /\ VUrl = "https://ics.uci.edu/x") => vret = <<TRUE>>
    /\ (vret # <<>> /\ VUrl = "https://evilics.uci.edu.attacker.com/x") => vret = <<FALSE>>
    /\ (vret # <<>> /\ VUrl = "https://ics.uci.edu/x.pdf") => vret = <<FALSE>>
    /\ (vret # <<>> /\ VUrl = "ftp://ics.uci.edu/x") => vret = <<FALSE>>

\* is_valid has accepted a URL whose host is a name under an allowed domain.
C8_Witness ==
    /\ vret = <<TRUE>>
    /\ vhost = "www.ics.uci.edu"
    /\ vpath = "/x.pdfx"


-----------------------------------------------------------------------------
(* The trap detector's claims, under SpecTrap.                              *)

\* the signature of the URL of the last is_trap call
LastPattern == PatternOf[tcall[1]]

\* C9: the first MAX_PATTERN_REPEAT calls of is_trap with URLs of one signature are
\* not flagged by the pattern check (with a text that has no fingerprint they return
\* False), and every later call with a URL of that signature returns True, whatever
\* the text. The counter of a signature is the number of calls made with it.
C9_PatternThreshold ==
    tcall # <<>> =>
        /\ url_patterns[LastPattern] = sigCalls[LastPattern]
        /\ sigCalls[LastPattern] > MAX_PATTERN_REPEAT => tcall[3] = TRUE
        /\ (sigCalls[LastPattern] <= MAX_PATTERN_REPEAT /\ TokensOf[tcall[2]] < MinHashedWords)
               => tcall[3] = FALSE

\* the 11th of 11 distinct URLs of one signature is flagged, though its text's
\* fingerprint was seen fewer than MAX_SIMILAR_CONTENT times; the 10 before it were not
C9_Witness ==
    /\ tcall = <<PageUrl(MAX_PATTERN_REPEAT + 1), "B", TRUE>>
    /\ sigCalls[LastPattern] = MAX_PATTERN_REPEAT + 1
    /\ HashOf["B"] \in DOMAIN content_hashes
    /\ Len(content_hashes[HashOf["B"]]) < MAX_SIMILAR_CONTENT
    /\ PageUrl(MAX_PATTERN_REPEAT) \in Range(content_hashes[HashOf["B"]])

\* C10: among the calls of is_trap that do not trip the pattern check, those with
\* texts of at least 20 tokens and one fingerprint return False the first
\* MAX_SIMILAR_CONTENT times and True from call MAX_SIMILAR_CONTENT + 1 on; a text of
\* fewer than 20 tokens never makes is_trap return True.
C10_ContentThreshold ==
    (tcall # <<>> /\ sigCalls[LastPattern] <= MAX_PATTERN_REPEAT) =>
        IF TokensOf[tcall[2]] >= MinHashedWords
        THEN tcall[3] = (fpCalls[HashOf[tcall[2]]] > MAX_SIMILAR_CONTENT)
        ELSE tcall[3] = FALSE

\* the call with URL MAX_SIMILAR_CONTENT + 1 of six distinct URLs whose texts have
\* one fingerprint is flagged, before the pattern check trips; the five before it
\* were not, and are the table's entry
C10_Witness ==
    /\ tcall = <<PageUrl(MAX_SIMILAR_CONTENT + 1), "A", TRUE>>
    /\ HashOf["A"] = HashOf["B"]
    /\ Texts["A"] # Texts["B"]
    /\ fpCalls[HashOf["A"]] = MAX_SIMILAR_CONTENT + 1
    /\ content_hashes[HashOf["A"]] = [k \in 1..MAX_SIMILAR_CONTENT |-> PageUrl(k)]

-----------------------------------------------------------------------------
(* Further claims about the frontier.                                      *)

\* the seed URLs, normalized
NormalizedSeeds == {Normalized[seed_urls[i]] : i \in 1..Len(seed_urls)}

\* C12: when Frontier.__init__ returns with restart = True, the durable map holds one
\* record, not completed, for each normalized seed URL and nothing else, and the list
\* holds exactly the normalized seed URLs, each once.
C12_FreshStartOnlySeeds ==
    call = <<"init", TRUE, None>> =>
        /\ DOMAIN disk = {get_urlhash(u) : u \in NormalizedSeeds}
        /\ \A u \in NormalizedSeeds : Record(disk, u) = <<u, FALSE>>
        /\ Range(to_be_downloaded) = NormalizedSeeds
        /\ NoDuplicates(to_be_downloaded)

\* C14: get_tbd_url returns the last entry of the list and removes that entry
\* alone; on an empty list it returns None and changes nothing. add_url puts a new
\* entry at the end, so the last entry is the one appended most recently.
C14_LifoPop ==
    [][/\ call'[1] = "get_tbd_url" =>
            /\ save' = save /\ disk' = disk /\ running' = running
            /\ IF to_be_downloaded = <<>>
               THEN call'[3] = None /\ to_be_downloaded' = <<>>
               ELSE /\ call'[3] = to_be_downloaded[Len(to_be_downloaded)]
                    /\ to_be_downloaded' =
                           SubSeq(to_be_downloaded, 1, Len(to_be_downloaded) - 1)
       /\ (call'[1] = "add_url" /\ to_be_downloaded' # to_be_downloaded) =>
              to_be_downloaded' = Append(to_be_downloaded, Normalized[call'[2]])]_vars

\* get_tbd_url returned the URL added last and left the seed, added before it.
C14_Witness ==
    /\ call = <<"get_tbd_url", None, UrlB>>
    /\ to_be_downloaded = <<UrlA>>

\* C15: mark_url_complete of a URL whose hash has no record returns, having added
\* the record (url, True) to the shelf and its files and nothing else, and leaves
\* the list as it was.
C15_MarkUnknownCreates ==
    [][(call'[1] = "mark_url_complete" /\ ~HasRecord(save, call'[2])) =>
           /\ running'
           /\ DOMAIN save' = DOMAIN save \cup {get_urlhash(call'[2])}
           /\ Record(save', call'[2]) = <<call'[2], TRUE>>
           /\ \A h \in DOMAIN save : save'[h] = save[h]
           /\ disk' = save'
           /\ to_be_downloaded' = to_be_downloaded]_vars

\* mark_url_complete has been called with a URL add_url never stores (it is not in
\* normal form), with URLs waiting in the list.
C15_Witness ==
    /\ call = <<"mark_url_complete", UrlARaw, None>>
    /\ Record(disk, UrlARaw) = <<UrlARaw, TRUE>>
    /\ to_be_downloaded # <<>>

\* C16: when mark_url_complete(u) has returned, the record of the normalized u is
\* completed, and no other record holds a URL with that normal form.
C16_MarkNormalizes ==
    call[1] = "mark_url_complete" =>
        LET u == Normalized[call[2]]
        IN  /\ HasRecord(disk, u)
            /\ Record(disk, u)[2] = TRUE
            /\ \A h \in DOMAIN disk : Normalized[disk[h][1]] = u => h = get_urlhash(u)

-----------------------------------------------------------------------------
(* is_valid never raises, under SpecValid.                                  *)

\* C13: a call of is_valid ends by returning a boolean, whatever its argument; it
\* returns False when the argument cannot be parsed or is not a string, and it
\* changes nothing of the frontier, of the trap detector or of the statistics.
C13_IsValidTotal ==
    [][vret' # vret =>
           /\ Len(vret') = 1
           /\ vret'[1] \in BOOLEAN
           /\ (UrlparseRaises(vtype, VUrl) \/ vtype # "str") => vret' = <<FALSE>>
           /\ UNCHANGED <<frontierVars, trapVars, statsVars>>]_vars

\* is_valid has returned False for a str urlparse raises a ValueError on, though
\* its scheme, host and path would pass every test
C13_Witness ==
    /\ vret = <<FALSE>>
    /\ vtype = "str"
    /\ VUrl = "https://[www.ics.uci.edu/x"
    /\ urlparse(VUrl).raises
    /\ is_valid("https://www.ics.uci.edu/x")

-----------------------------------------------------------------------------
(* Further claims about the trap detector, under SpecTrap.                  *)

\* C18: a call of is_trap whose URL's signature has been counted MAX_PATTERN_REPEAT
\* times or more returns True with the fingerprint table as it was: the text is
\* neither hashed into the table nor its URL recorded. The signature's counter is
\* one higher after the call all the same.
C18_PatternShortCircuit ==
    [][sigCalls' # sigCalls =>
           LET pattern == PatternOf[tcall'[1]]
               before == DictGet(url_patterns, pattern, 0)
           IN  before >= MAX_PATTERN_REPEAT =>
                   /\ tcall'[3] = TRUE
                   /\ content_hashes' = content_hashes
                   /\ url_patterns'[pattern] = before + 1]_vars

\* call MAX_PATTERN_REPEAT + 1 with the event's URL carried a text of twenty tokens
\* or more, the first such text: it was flagged, and the table is still empty
C18_Witness ==
    /\ tcall = <<Event, "Search", TRUE>>
    /\ url_patterns[PatternOf[Event]] = MAX_PATTERN_REPEAT + 1
    /\ TokensOf["Search"] >= MinHashedWords
    /\ HashOf["Search"] # None
    /\ content_hashes = <<>>

\* C19: get_url_pattern returns one signature for two URLs of one host and path
\* whose queries hold the same key=value parameters in different orders, queries
\* that repeat a key included.
C19_SignatureOrderIndependent ==
    gret # <<>> => gret[1] = gret[2]

\* C17: when K calls of is_trap with URLs of one signature, made by concurrent
\* workers, have all returned, the counter of that signature is K.
C17_NoLostIncrement ==
    (returned > 0 /\ \A w \in Workers : pc[w] = "idle") =>
        url_patterns[PatternOf[PageUrl(1)]] = returned

-----------------------------------------------------------------------------
(* The scraper's claims, under SpecScraper.                                 *)

\* C11: a call of scraper in which is_trap returns True returns no links and
\* leaves unique_pages, page_word_counts, word_frequencies and subdomains as
\* they were.
C11_TrapPageContributesNothing ==
    [][scall'[4] = <<TRUE>> => (scall'[3] = <<>> /\ UNCHANGED Statistics)]_vars

\* the sixth page of one fingerprint, at a URL no page was counted for: it has
\* links is_valid accepts, none was returned, and the URL is in no statistic
C11_Witness ==
    /\ scall = <<PageUrl(1) \o "#top", "page", <<>>, <<TRUE>>>>
    /\ Len(content_hashes[HashOf["Page"]]) = MAX_SIMILAR_CONTENT
    /\ ValidLinks # {}
    /\ unique_pages = {Event}
    /\ DOMAIN page_word_counts = {Event}

\* the responses of the claim: no raw response, a content type that is not
\* HTML, a status that is not 200, a body that does not parse
FailedResponses == {"none", "false", "pdf", "untyped", "404", "601", "unparsed"}

\* C20: a call of scraper with a response that has no raw response, a content
\* type that is not HTML, a status other than 200 or a body that does not parse
\* returns the empty list, and leaves the statistics, the pattern counters and the
\* fingerprint table as they were.
C20_FailureIsolation ==
    [][scall'[2] \in FailedResponses =>
           /\ scall'[3] = <<>>
           /\ scall'[4] = <<>>
           /\ UNCHANGED <<Statistics, url_patterns, content_hashes>>]_vars

\* after a page was counted, a response of status 601 whose body would have
\* passed every later test: nothing was returned and only that page is counted
C20_Witness ==
    /\ scall = <<Event, "601", <<>>, <<>>>>
    /\ unique_pages = {PageUrl(1)}
    /\ Total(url_patterns) = 1
    /\ TokensOf[Responses["601"].text] >= MIN_WORDS_PER_PAGE

-----------------------------------------------------------------------------
(* The fingerprint table and the counters over every step of is_trap.       *)

\* C21: in every step of any interleaving of is_trap calls, each list of
\* content_hashes holds at most MAX_SIMILAR_CONTENT URLs, no list loses an entry
\* (each list of before is a prefix of the list of after), and no counter of
\* url_patterns decreases.
C21_FingerprintTableBound ==
    [][/\ \A h \in DOMAIN content_hashes' :
             Len(content_hashes'[h]) <= MAX_SIMILAR_CONTENT
       /\ \A h \in DOMAIN content_hashes :
             /\ h \in DOMAIN content_hashes'
             /\ Len(content_hashes[h]) <= Len(content_hashes'[h])
             /\ SubSeq(content_hashes'[h], 1, Len(content_hashes[h])) = content_hashes[h]
       /\ \A p \in DOMAIN url_patterns :
             /\ p \in DOMAIN url_patterns'
             /\ url_patterns'[p] >= url_patterns[p]]_vars

-----------------------------------------------------------------------------
(* The crawl's claim, under SpecCrawlFair.                                  *)

\* C22: in a run of one worker that repeats get_tbd_url, add_url of each link
\* of the page popped and mark_url_complete of the popped URL, no URL is popped
\* twice, and the list is eventually empty for good.
C22_ForwardProgress ==
    /\ [](NoDuplicates(drained))
    /\ <>[](to_be_downloaded = <<>>)

\* in its last run the worker has popped every URL of the frontier and has
\* stopped on None
C22_Witness ==
    /\ pc = "done"
    /\ call = <<"get_tbd_url", None, None>>
    /\ calls = MaxRuns
    /\ Range(drained) = {UrlA, UrlB, UrlC}
    /\ to_be_downloaded = <<>>

-----------------------------------------------------------------------------
(* The constructor in resume mode, under SpecFallback.                      *)

\* C23: when Frontier.__init__ returns with restart = False over a durable map
\* that is missing or empty, the map holds one record, not completed, for each
\* normalized seed URL and the list holds the normalized seeds, each once, as
\* after a fresh start; over a map that is not empty the map is left as it was
\* found and the list holds its pending URLs and no more, so it is empty when
\* no record is pending.
C23_ResumeFallback ==
    call = <<"init", FALSE, None>> =>
        IF DOMAIN atOpen = {}
        THEN /\ DOMAIN save = {get_urlhash(u) : u \in NormalizedSeeds}
             /\ \A u \in NormalizedSeeds : Record(save, u) = <<u, FALSE>>
             /\ disk = save
             /\ Range(to_be_downloaded) = NormalizedSeeds
             /\ NoDuplicates(to_be_downloaded)
        ELSE /\ save = atOpen
             /\ disk = atOpen
             /\ Range(to_be_downloaded) = PendingUrls(atOpen)
             /\ NoDuplicates(to_be_downloaded)

\* a resume over a map in which every record is completed: the list is empty and
\* no seed was added
C23_Witness ==
    /\ call = <<"init", FALSE, None>>
    /\ DOMAIN atOpen # {}
    /\ \A k \in DOMAIN atOpen : atOpen[k][2] = TRUE
    /\ to_be_downloaded = <<>>
    /\ save = atOpen

====
